---- MODULE Spec2Model ----
(***************************************************************************)
(* State-machine model of the two sketches of the scanning rig:            *)
(*   src/src/main.cpp     servo + time-of-flight sensor sweep controller   *)
(*   src/src/stepper.cpp  28BYJ-48 stepper controller                      *)
(* Every action is a stretch of straight-line code of one sketch; a        *)
(* delay(n) is the last thing an action does.  Three specifications:       *)
(*   SpecServo    main.cpp alone (the sketch, and smoothMoveServoWithTOF   *)
(*                called on drawn arguments)                               *)
(*   SpecStepper  stepper.cpp alone (the sketch, and stepMotor and         *)
(*                moveToDegree called on drawn arguments)                  *)
(*   SpecRig      both sketches started at the same instant, on one clock  *)
(***************************************************************************)
EXTENDS Integers, Sequences, FiniteSets, TLC

VARIABLES
    timed,          \* TRUE when the clocks run (SpecRig)
    \* ---- main.cpp
    sEntry,         \* "sketch" (setup/loop) or "sweep" (one call of smoothMoveServoWithTOF)
    sensorOk,       \* what vl53.begin will return
    rangingOk,      \* what vl53.startRanging will return
    spc,            \* position in main.cpp
    sret,           \* where the running smoothMoveServoWithTOF call returns to
    sPhase,         \* scan phase the sketch is in (0 = none / between cycles)
    attached,       \* myServo.attach has run
    commanded,      \* number of myServo.write calls so far, capped at 1
    beginCalled,    \* vl53.begin has been called
    rangingCalled,  \* vl53.startRanging has been called
    startPos, endPos, pos,   \* frame of smoothMoveServoWithTOF
    currentServoPos,
    distance,
    written,        \* servo commands issued by the running/last sweep call
    polls,          \* vl53.dataReady calls made by the running/last sweep call
    lastPoll,       \* outcome of the last poll: "none", "notready", "valid", "failed"
    sI,             \* countdown variable i of loop()
    sClock,         \* milliseconds at which main.cpp runs its next code
    \* ---- stepper.cpp
    kEntry,         \* "sketch", "stepMotor" or "moveToDegree"
    kpc,            \* position in stepper.cpp
    kret,           \* where the running stepMotor call returns to
    pinsOut,        \* pinMode(INx, OUTPUT) has run
    coils,          \* levels of IN1..IN4
    steps, clockwise, nSteps, step,   \* frame of stepMotor
    idx,            \* table index of the last motor step of the running call (-1: none)
    idxStep,        \* value of the loop counter when idx was computed
    prevIdx,        \* table index of the motor step before that one (-1: none)
    lastDir,        \* direction of the last motor step
    degrees,        \* argument of moveToDegree
    currentDegree, targetDegree,
    kI,             \* countdown variable i of waitWithCountdown
    stepsInCall,    \* motor steps issued by the running/last stepMotor call
    stepsSinceReset,\* motor steps issued since the last reset (or start-up)
    itersSinceReset,\* loop() iterations finished since the last reset (or start-up)
    lastResetSteps, \* stepsSinceReset at the last reset (-1: no reset yet)
    lastResetIters, \* loop() iterations that ended with the last reset (-1: none)
    kClock          \* milliseconds at which stepper.cpp runs its next code

servoVars == <<sEntry, sensorOk, rangingOk, spc, sret, sPhase, attached, commanded,
               beginCalled, rangingCalled, startPos, endPos, pos, currentServoPos,
               distance, written, polls, lastPoll, sI, sClock>>

stepperVars == <<kEntry, kpc, kret, pinsOut, coils, steps, clockwise, nSteps, step,
                 idx, idxStep, prevIdx, lastDir, degrees, currentDegree, targetDegree,
                 kI, stepsInCall, stepsSinceReset, itersSinceReset, lastResetSteps,
                 lastResetIters, kClock>>

vars == <<timed, servoVars, stepperVars>>

(***************************************************************************)
(* Bounds of the model.                                                    *)
(***************************************************************************)
\* half-width of the windows the drawn sweep angles come from
MaxAngle == 3
\* largest |steps| of a drawn stepMotor call
MaxSteps == 17
\* largest degree count of a drawn moveToDegree call that runs to its end
MaxDeg == 3
\* iterations explored of a loop that only undefined behaviour or a
\* 2^31-step argument keeps running
LoopCap == 40
\* milliseconds of common time SpecRig explores
MaxTime == 16600000

(***************************************************************************)
(* The platform's int (32 bits) and the constants of the sketches.         *)
(***************************************************************************)
INT_MAX == 2147483647
INT_MIN == -INT_MAX - 1

minDegree == 0
maxDegree == 180
stepDelay == 100

\* What delay(n) does to a sketch's clock.
delay(clock, n) == IF timed THEN clock + n ELSE clock

\* Readings vl53.distance() may return: the failure sentinel and valid ones.
Distances == {-1, 0, 1200}

(***************************************************************************)
(* main.cpp                                                                *)
(***************************************************************************)
ServoSketchInit ==
    /\ sEntry = "sketch"
    /\ sensorOk \in BOOLEAN
    /\ rangingOk \in BOOLEAN
    /\ spc = "boot"
    /\ sret = "none"
    /\ sPhase = 0
    /\ attached = FALSE
    /\ commanded = 0
    /\ beginCalled = FALSE
    /\ rangingCalled = FALSE
    /\ startPos = 0 /\ endPos = 0 /\ pos = 0
    /\ currentServoPos = 0
    /\ distance = 0
    /\ written = <<>>
    /\ polls = 0
    /\ lastPoll = "none"
    /\ sI = 0
    /\ sClock = 0

\* The argument pairs smoothMoveServoWithTOF is called on: both angles in one
\* window, around 0, below INT_MAX or above INT_MIN.
SweepArgs ==
    LET low == (-MaxAngle)..MaxAngle
        top == {INT_MAX - k : k \in 0..MaxAngle}
        bot == {INT_MIN + k : k \in 0..MaxAngle}
    IN (low \X low) \cup (top \X top) \cup (bot \X bot)

\* A board whose setup() has finished, about to call smoothMoveServoWithTOF(A, B).
ServoCallInit ==
    /\ sEntry = "sweep"
    /\ sensorOk = TRUE
    /\ rangingOk = TRUE
    /\ spc = "call"
    /\ sret = "none"
    /\ sPhase = 0
    /\ attached = TRUE
    /\ commanded = 1
    /\ beginCalled = TRUE
    /\ rangingCalled = TRUE
    /\ \E arg \in SweepArgs : startPos = arg[1] /\ endPos = arg[2]
    /\ pos = 0
    /\ currentServoPos = 0
    /\ distance = 0
    /\ written = <<>>
    /\ polls = 0
    /\ lastPoll = "none"
    /\ sI = 0
    /\ sClock = 0

\* main.cpp is not running (SpecStepper).
ServoOffInit ==
    /\ sEntry = "off"
    /\ sensorOk = TRUE
    /\ rangingOk = TRUE
    /\ spc = "off"
    /\ sret = "none"
    /\ sPhase = 0
    /\ attached = FALSE
    /\ commanded = 0
    /\ beginCalled = FALSE
    /\ rangingCalled = FALSE
    /\ startPos = 0 /\ endPos = 0 /\ pos = 0
    /\ currentServoPos = 0
    /\ distance = 0
    /\ written = <<>>
    /\ polls = 0
    /\ lastPoll = "none"
    /\ sI = 0
    /\ sClock = 0

sensorVars == <<sensorOk, rangingOk, beginCalled, rangingCalled>>
frameVars == <<startPos, endPos, pos, sret>>
sweepLog == <<written, polls, lastPoll>>

\* main.cpp runs its next code: always when it runs alone; on the common
\* clock, when no other sketch's code is due earlier.
servoTurn == timed => (sClock <= kClock /\ sClock <= MaxTime)

\* readTOFSensor(): one dataReady poll; a reading is taken only when ready.
\* The result is <<distance, outcome of the poll>>.
readTOFSensor(ready, reading) ==
    IF ready
    THEN <<reading, IF reading = -1 THEN "failed" ELSE "valid">>
    ELSE <<distance, "notready">>

\* Mutant of sweepCond: the loop bounds made strict (pos < endPos, pos > endPos).
sweepCond_strict ==
    IF startPos < endPos THEN pos < endPos ELSE pos > endPos

\* The condition of the for loop smoothMoveServoWithTOF is running.
sweepForward == startPos < endPos
sweepCond == IF sweepForward THEN pos <= endPos ELSE pos >= endPos

\* Entry of smoothMoveServoWithTOF(A, B): currentServoPos = startPos, pos = startPos.
smoothMoveServoWithTOF(A, B, ret) ==
    /\ startPos' = A
    /\ endPos' = B
    /\ pos' = A
    /\ currentServoPos' = A
    /\ sret' = ret
    /\ written' = <<>>
    /\ polls' = 0
    /\ lastPoll' = "none"
    /\ spc' = "sweep"

\* setup(): Serial.begin; delay(1000).
ServoSetupStart ==
    /\ servoTurn
    /\ spc = "boot"
    /\ spc' = "init"
    /\ sClock' = delay(sClock, 1000)
    /\ UNCHANGED <<timed, stepperVars, sEntry, sensorVars, sPhase, attached, commanded, frameVars,
                   currentServoPos, distance, sweepLog, sI>>

\* Mutant of ServoSensorMissing: the error is printed but the idle wait is
\* missing, and setup() goes on to startRanging and the servo.
ServoSensorMissing_noHalt ==
    /\ servoTurn
    /\ spc = "init"
    /\ ~sensorOk
    /\ beginCalled' = TRUE
    /\ rangingCalled' = TRUE
    /\ attached' = TRUE
    /\ commanded' = 1
    /\ spc' = "loop"
    /\ sClock' = delay(sClock, 1000)
    /\ UNCHANGED <<timed, stepperVars, sEntry, sensorOk, rangingOk, sPhase, frameVars,
                   currentServoPos, distance, sweepLog, sI>>

\* setup(): vl53.begin fails: print the error, enter while (1) delay(10).
ServoSensorMissing ==
    /\ servoTurn
    /\ spc = "init"
    /\ ~sensorOk
    /\ beginCalled' = TRUE
    /\ spc' = "halt"
    /\ UNCHANGED <<timed, stepperVars, sEntry, sensorOk, rangingOk, rangingCalled, sPhase, attached,
                   commanded, frameVars, currentServoPos, distance, sweepLog, sI,
                   sClock>>

\* setup(): vl53.begin succeeds, vl53.startRanging fails: the same halt.
ServoRangingFailed ==
    /\ servoTurn
    /\ spc = "init"
    /\ sensorOk /\ ~rangingOk
    /\ beginCalled' = TRUE
    /\ rangingCalled' = TRUE
    /\ spc' = "halt"
    /\ UNCHANGED <<timed, stepperVars, sEntry, sensorOk, rangingOk, sPhase, attached, commanded,
                   frameVars, currentServoPos, distance, sweepLog, sI, sClock>>

\* while (1) delay(10);
ServoHalt ==
    /\ servoTurn
    /\ spc = "halt"
    /\ sClock' = delay(sClock, 10)
    /\ UNCHANGED <<timed, stepperVars, sEntry, sensorVars, spc, sPhase, attached, commanded, frameVars,
                   currentServoPos, distance, sweepLog, sI>>

\* setup(): both calls succeed: attach the servo, write(0), delay(1000).
ServoSetupFinish ==
    /\ servoTurn
    /\ spc = "init"
    /\ sensorOk /\ rangingOk
    /\ beginCalled' = TRUE
    /\ rangingCalled' = TRUE
    /\ attached' = TRUE
    /\ commanded' = 1
    /\ spc' = "loop"
    /\ sClock' = delay(sClock, 1000)
    /\ UNCHANGED <<timed, stepperVars, sEntry, sensorOk, rangingOk, sPhase, frameVars, currentServoPos,
                   distance, sweepLog, sI>>

\* loop(): delay(1000).
ServoLoopStart ==
    /\ servoTurn
    /\ spc = "loop"
    /\ spc' = "phase1"
    /\ sPhase' = 0
    /\ sClock' = delay(sClock, 1000)
    /\ UNCHANGED <<timed, stepperVars, sEntry, sensorVars, attached, commanded, frameVars,
                   currentServoPos, distance, sweepLog, sI>>

\* loop(): phase 1, smoothMoveServoWithTOF(minDegree, maxDegree).
ServoPhase1 ==
    /\ servoTurn
    /\ spc = "phase1"
    /\ sPhase' = 1
    /\ smoothMoveServoWithTOF(minDegree, maxDegree, "phase2")
    /\ UNCHANGED <<timed, stepperVars, sEntry, sensorVars, attached, commanded, distance, sI, sClock>>

\* loop(): phase 2, delay(1000).
ServoPhase2 ==
    /\ servoTurn
    /\ spc = "phase2"
    /\ sPhase' = 2
    /\ spc' = "phase3"
    /\ sClock' = delay(sClock, 1000)
    /\ UNCHANGED <<timed, stepperVars, sEntry, sensorVars, attached, commanded, frameVars,
                   currentServoPos, distance, sweepLog, sI>>

\* loop(): phase 3, smoothMoveServoWithTOF(maxDegree, minDegree).
ServoPhase3 ==
    /\ servoTurn
    /\ spc = "phase3"
    /\ sPhase' = 3
    /\ smoothMoveServoWithTOF(maxDegree, minDegree, "phase4")
    /\ UNCHANGED <<timed, stepperVars, sEntry, sensorVars, attached, commanded, distance, sI, sClock>>

\* loop(): phase 4, for (int i = 5; ...
ServoPhase4 ==
    /\ servoTurn
    /\ spc = "phase4"
    /\ sPhase' = 4
    /\ sI' = 5
    /\ spc' = "countdown"
    /\ UNCHANGED <<timed, stepperVars, sEntry, sensorVars, attached, commanded, frameVars,
                   currentServoPos, distance, sweepLog, sClock>>

\* loop(): ... i > 0: delay(1000); i--.
ServoCountdown ==
    /\ servoTurn
    /\ spc = "countdown"
    /\ sI > 0
    /\ sI' = sI - 1
    /\ sClock' = delay(sClock, 1000)
    /\ UNCHANGED <<timed, stepperVars, sEntry, sensorVars, spc, sPhase, attached, commanded, frameVars,
                   currentServoPos, distance, sweepLog>>

\* loop(): the countdown is over, loop() returns and is called again.
ServoCycleComplete ==
    /\ servoTurn
    /\ spc = "countdown"
    /\ sI <= 0
    /\ spc' = "loop"
    /\ sPhase' = 0
    /\ UNCHANGED <<timed, stepperVars, sEntry, sensorVars, attached, commanded, frameVars,
                   currentServoPos, distance, sweepLog, sI, sClock>>

\* The drawn call smoothMoveServoWithTOF(startPos, endPos).
SweepCall ==
    /\ servoTurn
    /\ spc = "call"
    /\ smoothMoveServoWithTOF(startPos, endPos, "done")
    /\ UNCHANGED <<timed, stepperVars, sEntry, sensorVars, sPhase, attached, commanded, distance, sI,
                   sClock>>

\* Loop body, first half: myServo.write(pos); currentServoPos = pos; delay(50).
SweepWrite ==
    /\ servoTurn
    /\ spc = "sweep"
    /\ sweepCond
    /\ Len(written) < (maxDegree - minDegree) + 1 + LoopCap
    /\ written' = Append(written, pos)
    /\ currentServoPos' = pos
    /\ commanded' = 1
    /\ spc' = "settled"
    /\ sClock' = delay(sClock, 50)
    /\ UNCHANGED <<timed, stepperVars, sEntry, sensorVars, sPhase, attached, frameVars, distance, polls,
                   lastPoll, sI>>

\* Mutant of SweepRead: the poll is repeated until data is ready.
SweepRead_retry ==
    /\ servoTurn
    /\ spc = "settled"
    /\ \E ready \in BOOLEAN, reading \in Distances :
          /\ distance' = readTOFSensor(ready, reading)[1]
          /\ lastPoll' = readTOFSensor(ready, reading)[2]
          /\ spc' = IF ready THEN "advance" ELSE "settled"
    /\ polls' = polls + 1
    /\ sClock' = delay(sClock, stepDelay - 50)
    /\ UNCHANGED <<timed, stepperVars, sEntry, sensorVars, sPhase, attached, commanded,
                   frameVars, currentServoPos, written, sI>>

\* Loop body, second half: readTOFSensor(); delay(stepDelay - 50).
SweepRead ==
    /\ servoTurn
    /\ spc = "settled"
    /\ \E ready \in BOOLEAN, reading \in Distances :
          /\ distance' = readTOFSensor(ready, reading)[1]
          /\ lastPoll' = readTOFSensor(ready, reading)[2]
    /\ polls' = polls + 1
    /\ spc' = "advance"
    /\ sClock' = delay(sClock, stepDelay - 50)
    /\ UNCHANGED <<timed, stepperVars, sEntry, sensorVars, sPhase, attached, commanded, frameVars,
                   currentServoPos, written, sI>>

\* pos++ / pos-- would leave the range of int.
sweepOverflows == IF sweepForward THEN pos = INT_MAX ELSE pos = INT_MIN

\* Loop increment: pos++ (forward) or pos-- (backward).
SweepAdvance ==
    /\ servoTurn
    /\ spc = "advance"
    /\ ~sweepOverflows
    /\ pos' = IF sweepForward THEN pos + 1 ELSE pos - 1
    /\ spc' = "sweep"
    /\ UNCHANGED <<timed, stepperVars, sEntry, sensorVars, sPhase, attached, commanded, startPos, endPos,
                   sret, currentServoPos, distance, sweepLog, sI, sClock>>

\* Loop increment at the end of int's range: signed overflow, undefined
\* behaviour.  Either the counter wraps and the loop goes on, or the build
\* (which may assume no overflow) leaves the loop.
SweepOverflow ==
    /\ servoTurn
    /\ spc = "advance"
    /\ sweepOverflows
    /\ \/ /\ pos' = IF sweepForward THEN INT_MIN ELSE INT_MAX
          /\ spc' = "sweep"
       \/ /\ pos' = pos
          /\ spc' = sret
    /\ UNCHANGED <<timed, stepperVars, sEntry, sensorVars, sPhase, attached, commanded, startPos, endPos,
                   sret, currentServoPos, distance, sweepLog, sI, sClock>>

\* The loop condition fails: smoothMoveServoWithTOF returns.
SweepReturn ==
    /\ servoTurn
    /\ spc = "sweep"
    /\ ~sweepCond
    /\ spc' = sret
    /\ UNCHANGED <<timed, stepperVars, sEntry, sensorVars, sPhase, attached, commanded, frameVars,
                   currentServoPos, distance, sweepLog, sI, sClock>>

\* The actions of a running scan (setup succeeded).
ServoRun ==
    \/ ServoSetupStart
    \/ ServoSetupFinish
    \/ ServoLoopStart
    \/ ServoPhase1
    \/ ServoPhase2
    \/ ServoPhase3
    \/ ServoPhase4
    \/ ServoCountdown
    \/ ServoCycleComplete
    \/ SweepWrite
    \/ SweepRead
    \/ SweepAdvance
    \/ SweepReturn

ServoNext ==
    \/ ServoRun
    \/ ServoSensorMissing
    \/ ServoRangingFailed
    \/ ServoHalt
    \/ SweepCall
    \/ SweepOverflow

(***************************************************************************)
(* stepper.cpp                                                             *)
(***************************************************************************)
\* Half-step sequence for the 28BYJ-48: seq[8][4], rows 0..7.
seq ==
    << <<1,0,0,0>>, <<1,1,0,0>>, <<0,1,0,0>>, <<0,1,1,0>>,
       <<0,0,1,0>>, <<0,0,1,1>>, <<0,0,0,1>>, <<1,0,0,1>> >>

STEPS_PER_REVOLUTION == 4096
STEPS_PER_DEGREE == STEPS_PER_REVOLUTION \div 360
TOTAL_DEGREES == 360
WAIT_TIME_SECONDS == 46

LOW == <<0, 0, 0, 0>>
PinLevels == {0, 1} \X {0, 1} \X {0, 1} \X {0, 1}

\* a & b on non-negative ints, bit by bit.
RECURSIVE BitAnd(_, _)
BitAnd(a, b) ==
    IF a = 0 \/ b = 0
    THEN 0
    ELSE (a % 2) * (b % 2) + 2 * BitAnd(a \div 2, b \div 2)

\* Mutant of stepIndex: the masks left out (idx = step, idx = 8 - (step & 7)).
stepIndex_unmasked(s, cw) ==
    IF cw THEN s ELSE 8 - BitAnd(s, 7)

\* The table index stepMotor computes from its loop counter.
stepIndex(s, cw) ==
    IF cw THEN BitAnd(s, 7) ELSE BitAnd(8 - BitAnd(s, 7), 7)

\* seq[i]: the row read; outside 0..7 the read is out of bounds and may
\* yield any levels.
tableRead(i) == IF i \in 0..7 THEN {seq[i + 1]} ELSE PinLevels

\* abs(x); -INT_MIN overflows (undefined): the wrapped and the saturated result.
absOutcomes(x) ==
    IF x = INT_MIN THEN {INT_MIN, INT_MAX} ELSE {IF x > 0 THEN x ELSE -x}

\* a * b in int, b > 0; a product beyond INT_MAX overflows (undefined): the
\* build's multiply instruction wraps it.
mulOutcomes(a, b) ==
    LET limit == INT_MAX \div b
        r == INT_MAX % b
    IN IF a >= -limit /\ a <= limit
       THEN {a * b}
       ELSE IF a > limit /\ a <= 2 * limit
            THEN {INT_MIN + (b - r - 1) + (a - limit - 1) * b}
            ELSE {0}

\* Steps explored of one stepMotor call.
stepCap == LoopCap + MaxSteps + MaxDeg * STEPS_PER_DEGREE

StepperGhostInit ==
    /\ idx = -1
    /\ idxStep = -1
    /\ prevIdx = -1
    /\ lastDir = TRUE
    /\ stepsInCall = 0
    /\ stepsSinceReset = 0
    /\ itersSinceReset = 0
    /\ lastResetSteps = -1
    /\ lastResetIters = -1
    /\ kClock = 0

\* Power-up of the stepper board: the pins are not configured yet.
StepperSketchInit ==
    /\ kEntry = "sketch"
    /\ kpc = "boot"
    /\ kret = "none"
    /\ pinsOut = FALSE
    /\ coils \in PinLevels
    /\ steps = 0 /\ clockwise = TRUE /\ nSteps = 0 /\ step = 0
    /\ degrees = 0
    /\ currentDegree = 0
    /\ targetDegree = 0
    /\ kI = 0
    /\ StepperGhostInit

\* The arguments stepMotor is called on.
StepArgs == (((-MaxSteps)..MaxSteps) \cup {INT_MIN, INT_MAX}) \X BOOLEAN

\* The arguments moveToDegree is called on: small ones, and the first
\* degree counts whose step count leaves the range of int.
DegreeArgs ==
    ((-MaxDeg)..MaxDeg)
       \cup ((INT_MAX \div STEPS_PER_DEGREE)..(INT_MAX \div STEPS_PER_DEGREE + 2))

\* A board whose setup() has finished, about to call stepMotor(steps, clockwise).
StepMotorCallInit ==
    /\ kEntry = "stepMotor"
    /\ kpc = "call_stepMotor"
    /\ kret = "none"
    /\ pinsOut = TRUE
    /\ coils = LOW
    /\ \E arg \in StepArgs : steps = arg[1] /\ clockwise = arg[2]
    /\ nSteps = 0 /\ step = 0
    /\ degrees = 0
    /\ currentDegree = 0
    /\ targetDegree = 0
    /\ kI = 0
    /\ StepperGhostInit

\* A board whose setup() has finished, about to call moveToDegree(degrees).
MoveToDegreeCallInit ==
    /\ kEntry = "moveToDegree"
    /\ kpc = "call_moveToDegree"
    /\ kret = "none"
    /\ pinsOut = TRUE
    /\ coils = LOW
    /\ steps = 0 /\ clockwise = TRUE /\ nSteps = 0 /\ step = 0
    /\ degrees \in DegreeArgs
    /\ currentDegree = 0
    /\ targetDegree = 0
    /\ kI = 0
    /\ StepperGhostInit

\* stepper.cpp is not running (SpecServo).
StepperOffInit ==
    /\ kEntry = "off"
    /\ kpc = "off"
    /\ kret = "none"
    /\ pinsOut = FALSE
    /\ coils = LOW
    /\ steps = 0 /\ clockwise = TRUE /\ nSteps = 0 /\ step = 0
    /\ degrees = 0
    /\ currentDegree = 0
    /\ targetDegree = 0
    /\ kI = 0
    /\ StepperGhostInit

\* stepper.cpp runs its next code: always when it runs alone; on the common
\* clock, when no other sketch's code is due earlier.
stepperTurn == timed => (kClock <= sClock /\ kClock <= MaxTime)

stepFrame == <<steps, clockwise, nSteps, step, kret>>
stepGhost == <<idx, idxStep, prevIdx, lastDir, stepsInCall, stepsSinceReset>>
resetGhost == <<itersSinceReset, lastResetSteps, lastResetIters>>

\* Entry of stepMotor(s, cw): step = 0, the loop bound is abs(steps).
stepMotor(s, cw, ret) ==
    /\ steps' = s
    /\ clockwise' = cw
    /\ nSteps' \in absOutcomes(s)
    /\ step' = 0
    /\ kret' = ret
    /\ stepsInCall' = 0
    /\ kpc' = "step"

\* Mutant of coilsAtReturn: the four digitalWrite(INx, LOW) left out.
coilsAtReturn_left(c) == c

\* The levels stepMotor leaves on IN1..IN4 when it returns.
coilsAtReturn(c) == LOW

\* Mutant of scanComplete: > instead of >=.
scanComplete_strict(d) == d > TOTAL_DEGREES

\* if (currentDegree >= TOTAL_DEGREES)
scanComplete(d) == d >= TOTAL_DEGREES

\* setup(): Serial.begin; delay(1000).
StepperSetupStart ==
    /\ stepperTurn
    /\ kpc = "boot"
    /\ kpc' = "pins"
    /\ kClock' = delay(kClock, 1000)
    /\ UNCHANGED <<timed, servoVars, kEntry, pinsOut, coils, stepFrame, stepGhost,
                   resetGhost, degrees, currentDegree, targetDegree, kI>>

\* setup(): pinMode x4, all coils LOW, currentDegree = targetDegree = 0.
StepperSetupPins ==
    /\ stepperTurn
    /\ kpc = "pins"
    /\ pinsOut' = TRUE
    /\ coils' = LOW
    /\ currentDegree' = 0
    /\ targetDegree' = 0
    /\ kpc' = "loop"
    /\ UNCHANGED <<timed, servoVars, kEntry, stepFrame, stepGhost, resetGhost,
                   degrees, kI, kClock>>

\* loop(): waitWithCountdown(WAIT_TIME_SECONDS): for (int i = seconds; ...
StepperLoopStart ==
    /\ stepperTurn
    /\ kpc = "loop"
    /\ kI' = WAIT_TIME_SECONDS
    /\ kpc' = "wait"
    /\ UNCHANGED <<timed, servoVars, kEntry, pinsOut, coils, stepFrame, stepGhost,
                   resetGhost, degrees, currentDegree, targetDegree, kClock>>

\* waitWithCountdown: ... i > 0: delay(1000); i--.
StepperCountdown ==
    /\ stepperTurn
    /\ kpc = "wait"
    /\ kI > 0
    /\ kI' = kI - 1
    /\ kClock' = delay(kClock, 1000)
    /\ UNCHANGED <<timed, servoVars, kEntry, kpc, pinsOut, coils, stepFrame,
                   stepGhost, resetGhost, degrees, currentDegree, targetDegree>>

\* loop(): the wait is over: targetDegree++; stepMotor(STEPS_PER_DEGREE, true).
StepperMove ==
    /\ stepperTurn
    /\ kpc = "wait"
    /\ kI <= 0
    /\ targetDegree' = targetDegree + 1
    /\ stepMotor(STEPS_PER_DEGREE, TRUE, "moved")
    /\ UNCHANGED <<timed, servoVars, kEntry, pinsOut, coils, idx, idxStep, prevIdx,
                   lastDir, stepsSinceReset, resetGhost, degrees, currentDegree, kI,
                   kClock>>

\* stepMotor, one pass of the loop: compute idx, write seq[idx] to the four
\* pins, delay(2), step++.
StepMotorStep ==
    /\ stepperTurn
    /\ kpc = "step"
    /\ step < nSteps
    /\ step < stepCap
    /\ idx' = stepIndex(step, clockwise)
    /\ idxStep' = step
    /\ prevIdx' = idx
    /\ lastDir' = clockwise
    /\ coils' \in tableRead(stepIndex(step, clockwise))
    /\ step' = step + 1
    /\ stepsInCall' = stepsInCall + 1
    /\ stepsSinceReset' = stepsSinceReset + 1
    /\ kClock' = delay(kClock, 2)
    /\ UNCHANGED <<timed, servoVars, kEntry, kpc, pinsOut, steps, clockwise, nSteps,
                   kret, resetGhost, degrees, currentDegree, targetDegree, kI>>

\* stepMotor, after the loop: all four pins LOW; return.
StepMotorCoilsOff ==
    /\ stepperTurn
    /\ kpc = "step"
    /\ ~(step < nSteps)
    /\ coils' = coilsAtReturn(coils)
    /\ kpc' = kret
    /\ UNCHANGED <<timed, servoVars, kEntry, pinsOut, stepFrame, stepGhost,
                   resetGhost, degrees, currentDegree, targetDegree, kI, kClock>>

\* loop(): currentDegree = targetDegree, below TOTAL_DEGREES: loop() returns.
StepperNextDegree ==
    /\ stepperTurn
    /\ kpc = "moved"
    /\ ~scanComplete(targetDegree)
    /\ currentDegree' = targetDegree
    /\ itersSinceReset' = itersSinceReset + 1
    /\ kpc' = "loop"
    /\ UNCHANGED <<timed, servoVars, kEntry, pinsOut, coils, stepFrame, stepGhost,
                   lastResetSteps, lastResetIters, degrees, targetDegree, kI, kClock>>

\* loop(): currentDegree = targetDegree reached TOTAL_DEGREES: both reset
\* to 0 (the motor is not moved back), delay(2000).
StepperScanComplete ==
    /\ stepperTurn
    /\ kpc = "moved"
    /\ scanComplete(targetDegree)
    /\ currentDegree' = 0
    /\ targetDegree' = 0
    /\ lastResetIters' = itersSinceReset + 1
    /\ itersSinceReset' = 0
    /\ lastResetSteps' = stepsSinceReset
    /\ stepsSinceReset' = 0
    /\ kpc' = "loop"
    /\ kClock' = delay(kClock, 2000)
    /\ UNCHANGED <<timed, servoVars, kEntry, pinsOut, coils, stepFrame, idx, idxStep,
                   prevIdx, lastDir, stepsInCall, degrees, kI>>

\* The drawn call stepMotor(steps, clockwise).
StepMotorCall ==
    /\ stepperTurn
    /\ kpc = "call_stepMotor"
    /\ stepMotor(steps, clockwise, "done")
    /\ UNCHANGED <<timed, servoVars, kEntry, pinsOut, coils, idx, idxStep, prevIdx,
                   lastDir, stepsSinceReset, resetGhost, degrees, currentDegree,
                   targetDegree, kI, kClock>>

\* Mutant of stepsToMove: the degree count passed on unscaled.
stepsToMove_unscaled(d) == {d}

\* moveToDegree: int stepsToMove = degrees * STEPS_PER_DEGREE;
stepsToMove(d) == mulOutcomes(d, STEPS_PER_DEGREE)

\* The drawn call moveToDegree(degrees): stepMotor(stepsToMove, true).
MoveToDegreeCall ==
    /\ stepperTurn
    /\ kpc = "call_moveToDegree"
    /\ \E s \in stepsToMove(degrees) : stepMotor(s, TRUE, "moveToDegree")
    /\ UNCHANGED <<timed, servoVars, kEntry, pinsOut, coils, idx, idxStep, prevIdx,
                   lastDir, stepsSinceReset, resetGhost, degrees, currentDegree,
                   targetDegree, kI, kClock>>

\* moveToDegree, after stepMotor: currentDegree = degrees.
MoveToDegreeReturn ==
    /\ stepperTurn
    /\ kpc = "moveToDegree"
    /\ currentDegree' = degrees
    /\ kpc' = "done"
    /\ UNCHANGED <<timed, servoVars, kEntry, pinsOut, coils, stepFrame, stepGhost,
                   resetGhost, degrees, targetDegree, kI, kClock>>

\* The actions of the stepper sketch.
StepperRun ==
    \/ StepperSetupStart
    \/ StepperSetupPins
    \/ StepperLoopStart
    \/ StepperCountdown
    \/ StepperMove
    \/ StepMotorStep
    \/ StepMotorCoilsOff
    \/ StepperNextDegree
    \/ StepperScanComplete

StepperNext ==
    \/ StepperRun
    \/ StepMotorCall
    \/ MoveToDegreeCall
    \/ MoveToDegreeReturn

(***************************************************************************)
(* The specifications.                                                     *)
(***************************************************************************)
InitServo == timed = FALSE /\ (ServoSketchInit \/ ServoCallInit) /\ StepperOffInit

SpecServo == InitServo /\ [][ServoNext]_vars

InitStepper ==
    /\ timed = FALSE
    /\ ServoOffInit
    /\ (StepperSketchInit \/ StepMotorCallInit \/ MoveToDegreeCallInit)

SpecStepper == InitStepper /\ [][StepperNext]_vars

\* Both boards powered up at the same instant, the sensor present.
InitRig ==
    /\ timed = TRUE
    /\ ServoSketchInit /\ sensorOk /\ rangingOk
    /\ StepperSketchInit

RigNext == ServoRun \/ StepperRun

SpecRig == InitRig /\ [][RigNext]_vars

(***************************************************************************)
(* Claims about main.cpp (checked under SpecServo).                        *)
(***************************************************************************)
\* The angles A, A+1, ..., B (A < B) or A, A-1, ..., B (A >= B), in order.
Ramp(A, B) ==
    [i \in 1..((IF A < B THEN B - A ELSE A - B) + 1) |->
        IF A < B THEN A + (i - 1) ELSE A - (i - 1)]

IsPrefix(s, t) ==
    /\ Len(s) <= Len(t)
    /\ \A i \in 1..Len(s) : s[i] = t[i]

\* smoothMoveServoWithTOF is running / has just returned to its caller.
inSweep == spc \in {"sweep", "settled", "advance"}
sweepReturned == spc \in {"done", "phase2", "phase4"}

\* The loop counter never has to step past the end of int's range.
sweepInRange ==
    /\ ~(startPos < endPos /\ endPos = INT_MAX)
    /\ ~(startPos >= endPos /\ endPos = INT_MIN)

\* C1 as stated: for every pair of int angles A, B the servo commands of
\* smoothMoveServoWithTOF(A, B) are exactly the ramp from A to B, each angle
\* once, in order, none outside; on return currentServoPos = B.
C1_EveryPair ==
    /\ inSweep => IsPrefix(written, Ramp(startPos, endPos))
    /\ sweepReturned =>
          /\ written = Ramp(startPos, endPos)
          /\ currentServoPos = endPos

\* C1 amended: the same, for every pair of int angles except A < B = INT_MAX
\* and A >= B = INT_MIN (where the loop counter overflows).
C1_SweepIsRamp == sweepInRange => C1_EveryPair

\* C1 witness: a drawn backward sweep over at least three angles has returned.
C1_Witness ==
    /\ sEntry = "sweep" /\ spc = "done"
    /\ startPos - endPos > 1
    /\ Len(written) = startPos - endPos + 1
    /\ currentServoPos = endPos

\* C2: when vl53.begin or vl53.startRanging fails, setup() ends in the idle
\* wait with the servo never attached or commanded and no scan phase run;
\* when begin fails startRanging is never called; the halt is never left.
C2_FailureHalts ==
    /\ [](/\ (sEntry = "sketch" /\ ~(sensorOk /\ rangingOk) /\ spc \notin {"boot", "init"})
                => spc = "halt"
          /\ spc = "halt" =>
                /\ ~attached /\ commanded = 0
                /\ sPhase = 0 /\ written = <<>> /\ polls = 0
                /\ beginCalled
                /\ rangingCalled = sensorOk)
    /\ [][spc = "halt" => spc' = "halt"]_vars

\* C2 witness: halted after a failed startRanging, the idle wait running.
C2_Witness ==
    /\ spc = "halt" /\ sensorOk /\ ~rangingOk /\ rangingCalled /\ ~attached

\* C3: the sensor is polled exactly once per servo command, and whatever the
\* poll returned (not ready, a distance, the sentinel -1) the sweep goes on
\* from the angle just written: the commands are the ramp, whatever was read.
C3_PollNeverAltersSweep ==
    /\ polls = (IF spc = "settled" THEN Len(written) - 1 ELSE Len(written))
    /\ spc = "advance" =>
          /\ lastPoll \in {"notready", "valid", "failed"}
          /\ pos = written[Len(written)]
          /\ currentServoPos = pos
    /\ (sweepInRange /\ inSweep) => IsPrefix(written, Ramp(startPos, endPos))
    /\ (sweepInRange /\ sweepReturned) => written = Ramp(startPos, endPos)
    /\ sEntry = "sketch" =>
          /\ sPhase = 1 =>
                (spc \in {"sweep", "settled", "advance", "phase2"}
                    /\ startPos = minDegree /\ endPos = maxDegree)
          /\ sPhase = 3 =>
                (spc \in {"sweep", "settled", "advance", "phase4"}
                    /\ startPos = maxDegree /\ endPos = minDegree)
          /\ inSweep => sPhase \in {1, 3}

\* C3 witness: in phase 3 a poll returned the failure sentinel and the sweep
\* moved on to the next lower angle.
C3_Witness ==
    /\ sEntry = "sketch" /\ sPhase = 3
    /\ spc = "sweep" /\ lastPoll = "failed" /\ distance = -1
    /\ pos = written[Len(written)] - 1
    /\ pos >= minDegree

(***************************************************************************)
(* Claims about stepper.cpp (checked under SpecStepper).                   *)
(***************************************************************************)
\* C4: at every loop() boundary currentDegree = targetDegree in 0..359; in
\* an iteration targetDegree is one ahead until currentDegree is set to it;
\* the reset to 0 ends exactly every 360th iteration.
C4_DegreesWrapAt360 ==
    kEntry = "sketch" =>
       /\ kpc \in {"loop", "wait"} =>
             /\ currentDegree = targetDegree
             /\ currentDegree >= 0 /\ currentDegree <= TOTAL_DEGREES - 1
             /\ itersSinceReset = currentDegree
       /\ kpc \in {"step", "moved"} => targetDegree = currentDegree + 1
       /\ lastResetIters \in {-1, TOTAL_DEGREES}

\* C4 witness: a reset has just brought both degrees back to 0.
C4_Witness ==
    /\ kEntry = "sketch" /\ kpc = "loop"
    /\ lastResetIters = TOTAL_DEGREES
    /\ currentDegree = 0 /\ targetDegree = 0 /\ itersSinceReset = 0

\* C5: the index read from seq is the loop counter modulo 8 (clockwise) or
\* its negation modulo 8 (counter-clockwise), hence always in 0..7.
C5_IndexModulo8 ==
    idx # -1 =>
       /\ idx \in 0..7
       /\ idx = (IF lastDir THEN idxStep % 8 ELSE (0 - idxStep) % 8)

\* C5 witness: a counter-clockwise call with a negative steps argument is
\* past its eighth step.
C5_Witness ==
    /\ kEntry = "stepMotor" /\ steps < 0 /\ ~clockwise
    /\ idxStep = 9 /\ idx = 7

\* What C6 says of moveToDegree(degrees).
moveToDegreeExact ==
    /\ kpc \in {"step", "moveToDegree", "done"} =>
          /\ steps \div STEPS_PER_DEGREE = degrees
          /\ steps % STEPS_PER_DEGREE = 0
          /\ nSteps = steps
    /\ kpc \in {"moveToDegree", "done"} => stepsInCall = steps
    /\ kpc = "done" => currentDegree = degrees

\* C6 as stated: for every degree count d >= 0 moveToDegree(d) issues exactly
\* d * STEPS_PER_DEGREE motor steps and sets currentDegree = d; a one-degree
\* move of loop() issues exactly STEPS_PER_DEGREE motor steps.
C6_EveryDegreeCount ==
    /\ (kEntry = "moveToDegree" /\ degrees >= 0) => moveToDegreeExact
    /\ (kEntry = "sketch" /\ kpc = "moved") => stepsInCall = STEPS_PER_DEGREE

\* C6 amended: the same, for every d with 0 <= d <= INT_MAX / STEPS_PER_DEGREE
\* (beyond it d * STEPS_PER_DEGREE overflows int).
C6_ExactMultiplication ==
    /\ (/\ kEntry = "moveToDegree"
        /\ degrees >= 0
        /\ degrees <= INT_MAX \div STEPS_PER_DEGREE) => moveToDegreeExact
    /\ (kEntry = "sketch" /\ kpc = "moved") => stepsInCall = STEPS_PER_DEGREE

\* C6 witness: moveToDegree(2) has returned after 2 * STEPS_PER_DEGREE steps.
C6_Witness ==
    /\ kEntry = "moveToDegree" /\ kpc = "done"
    /\ degrees = 2 /\ stepsInCall = 2 * STEPS_PER_DEGREE /\ currentDegree = 2

\* C7 as stated: every motor step of the sketch energizes the slot next to
\* the one of the previous motor step (+1 mod 8 clockwise, -1 mod 8
\* counter-clockwise), also across stepMotor calls.
C7_AdjacentSlots ==
    (kEntry = "sketch" /\ prevIdx # -1) =>
       idx = (IF lastDir THEN (prevIdx + 1) % 8 ELSE (prevIdx + 7) % 8)

\* C8: whenever the pins are configured and stepMotor is not running, all
\* four outputs are LOW; in particular when stepMotor has returned.
C8_CoilsOffOutsideMove ==
    (pinsOut /\ kpc # "step") => coils = LOW

\* C8 witness: the sketch counts down after a move, the coils off.
C8_Witness ==
    /\ kEntry = "sketch" /\ kpc = "wait" /\ kI < WAIT_TIME_SECONDS
    /\ stepsSinceReset > 0 /\ coils = LOW

\* C10 as stated: at every reset of currentDegree the motor has made
\* STEPS_PER_REVOLUTION steps since the previous reset (or start-up).
C10_FullRevolutionAtReset ==
    lastResetSteps # -1 => lastResetSteps = STEPS_PER_REVOLUTION

(***************************************************************************)
(* Claim about the two sketches together (checked under SpecRig).          *)
(***************************************************************************)
\* C9 as stated: every motor step is made while main.cpp is in its phase-4
\* pause.
C9_StepsOnlyInPhase4 ==
    [][stepsSinceReset' = stepsSinceReset + 1 => sPhase = 4]_vars

====
